---- MODULE Spec2Model ----
(***************************************************************************)
(* Model of triangular_grid_merge/tecplot.py: reading zones of a tecplot   *)
(* file into a Grid (read_tecplot, set_nodes, set_faces) and writing a     *)
(* Grid back (print_tecplot).                                              *)
(*                                                                         *)
(* Objects live in three stores of the grid record: grid.node, grid.edge   *)
(* and grid.face, indexed by allocation order; an object's identity is its *)
(* index.  grid.Zones, grid.Nodes, grid.Edges and grid.Faces are the lists *)
(* of the Grid object.  Node, Edge, Face, Grid and the node_algorithms are *)
(* imported by tecplot.py from modules that are not part of the sources;   *)
(* their definitions below follow the design document.                     *)
(***************************************************************************)
EXTENDS Integers, Sequences, FiniteSets, TLC

VARIABLES grid, pre, hist, status, outfile

vars == <<grid, pre, hist, status, outfile>>

\* ------------------------------------------------------------------ bounds
MaxZones == 2
MaxNodes == 3
MaxFaces == 1
MaxCoord == 1

None == 0

\* ----------------------------------------------------------------- helpers
Min(S) == CHOOSE m \in S : \A k \in S : m <= k
Max(S) == CHOOSE m \in S : \A k \in S : m >= k
Range(s) == {s[k] : k \in 1..Len(s)}
InsertAt(s, k, e) == SubSeq(s, 1, k - 1) \o <<e>> \o SubSeq(s, k, Len(s))

\* Python's list[i] for a 0-based i: negative i counts from the end.
PyInRange(list, i) == -Len(list) <= i /\ i <= Len(list) - 1
PyGet(list, i) == IF i >= 0 THEN list[i + 1] ELSE list[Len(list) + i + 1]

\* ----------------------------------------------------------------- objects
Node(p) == [x |-> p[1], y |-> p[2], edges |-> {}, faces |-> {}, Id |-> None]
Edge == [nodes |-> <<>>, faces |-> {}, Id |-> None]
Face(ids) == [nodes_ids |-> ids, nodes |-> <<>>, edges |-> <<>>, Id |-> None]
Zone(ns, fs) == [Nodes |-> ns, Faces |-> fs]

Grid == [Zones |-> <<>>, Nodes |-> <<>>, Edges |-> <<>>, Faces |-> <<>>,
         node |-> <<>>, edge |-> <<>>, face |-> <<>>]

XY(g, n) == <<g.node[n].x, g.node[n].y>>

\* Grid.link_face_and_node, link_face_and_edge, link_node_and_edge
link_face_and_node(g, f, n) ==
    [g EXCEPT !.face[f].nodes = Append(@, n), !.node[n].faces = @ \cup {f}]

link_face_and_edge(g, f, e) ==
    [g EXCEPT !.face[f].edges = Append(@, e), !.edge[e].faces = @ \cup {f}]

link_node_and_edge(g, n, e) ==
    [g EXCEPT !.node[n].edges = @ \cup {e}, !.edge[e].nodes = Append(@, n)]

\* Grid.is_edge_present: the Edge that connects n1 and n2, or None.
Connects(g, e, n1, n2) == Range(g.edge[e].nodes) = {n1, n2}

is_edge_present(g, n1, n2) ==
    LET found == {e \in g.node[n1].edges \cap g.node[n2].edges :
                     Connects(g, e, n1, n2)}
    IN  IF found = {} THEN None ELSE Min(found)

\* Grid.init_ids: sequential ids, in the order of the global lists.
Position(s, o) == Max({k \in 1..Len(s) : s[k] = o})

init_ids(g) ==
    [g EXCEPT
       !.node = [n \in 1..Len(g.node) |->
                   IF n \in Range(g.Nodes)
                   THEN [g.node[n] EXCEPT !.Id = Position(g.Nodes, n)]
                   ELSE g.node[n]],
       !.edge = [e \in 1..Len(g.edge) |->
                   IF e \in Range(g.Edges)
                   THEN [g.edge[e] EXCEPT !.Id = Position(g.Edges, e)]
                   ELSE g.edge[e]],
       !.face = [f \in 1..Len(g.face) |->
                   IF f \in Range(g.Faces)
                   THEN [g.face[f] EXCEPT !.Id = Position(g.Faces, f)]
                   ELSE g.face[f]]]

\* --------------------------------------------------------- node_algorithms
\* Each algorithm resolves the nodes of one zone list, in local order, against
\* grid.Nodes: a node whose (x, y) is already there is replaced in the zone
\* list by the one found, any other node is added to grid.Nodes.
Resolve(g, zi, i, hit) == [g EXCEPT !.Zones[zi].Nodes[i] = hit]

\* n_square: element by element search, the first equal node wins.
FindLinear(g, c) ==
    LET hits == {k \in 1..Len(g.Nodes) : XY(g, g.Nodes[k]) = XY(g, c)}
    IN  IF hits = {} THEN None ELSE g.Nodes[Min(hits)]

RECURSIVE NSquareLoop(_, _, _)
NSquareLoop(g, zi, i) ==
    IF i > Len(g.Zones[zi].Nodes) THEN g
    ELSE LET c == g.Zones[zi].Nodes[i]
             hit == FindLinear(g, c)
         IN  NSquareLoop(IF hit = None
                         THEN [g EXCEPT !.Nodes = Append(@, c)]
                         ELSE Resolve(g, zi, i, hit), zi, i + 1)

n_square(g, zi) == NSquareLoop(g, zi, 1)

\* The x of the k-th node of grid.Nodes.
XAt(g, k) == g.node[g.Nodes[k]].x
YAt(g, k) == g.node[g.Nodes[k]].y

\* Leftmost position of grid.Nodes[lo..hi-1] whose x is not below x.
RECURSIVE LowerBound(_, _, _, _)
LowerBound(g, x, lo, hi) ==
    IF lo >= hi THEN lo
    ELSE LET mid == (lo + hi) \div 2
         IN  IF XAt(g, mid) < x THEN LowerBound(g, x, mid + 1, hi)
             ELSE LowerBound(g, x, lo, mid)

\* Scan to the right from position k while x stays equal.
RECURSIVE ScanRight(_, _, _)
ScanRight(g, c, k) ==
    IF k > Len(g.Nodes) \/ XAt(g, k) # g.node[c].x THEN None
    ELSE IF YAt(g, k) = g.node[c].y THEN g.Nodes[k]
    ELSE ScanRight(g, c, k + 1)

\* Scan to the left from position k while x stays equal.
RECURSIVE ScanLeft(_, _, _)
ScanLeft(g, c, k) ==
    IF k < 1 \/ XAt(g, k) # g.node[c].x THEN None
    ELSE IF YAt(g, k) = g.node[c].y THEN g.Nodes[k]
    ELSE ScanLeft(g, c, k - 1)

RECURSIVE Dichotomy1Loop(_, _, _)
Dichotomy1Loop(g, zi, i) ==
    IF i > Len(g.Zones[zi].Nodes) THEN g
    ELSE LET c == g.Zones[zi].Nodes[i]
             pos == LowerBound(g, g.node[c].x, 1, Len(g.Nodes) + 1)
             hit == ScanRight(g, c, pos)
         IN  Dichotomy1Loop(IF hit = None
                            THEN [g EXCEPT !.Nodes = InsertAt(@, pos, c)]
                            ELSE Resolve(g, zi, i, hit), zi, i + 1)

dichotomy_1_sided(g, zi) == Dichotomy1Loop(g, zi, 1)

\* Dichotomy that stops at the first position met whose x equals x; without
\* one, the position where x belongs.
RECURSIVE Bisect(_, _, _, _)
Bisect(g, x, lo, hi) ==
    IF lo > hi THEN [found |-> FALSE, pos |-> lo]
    ELSE LET mid == (lo + hi) \div 2
         IN  IF XAt(g, mid) = x THEN [found |-> TRUE, pos |-> mid]
             ELSE IF XAt(g, mid) < x THEN Bisect(g, x, mid + 1, hi)
             ELSE Bisect(g, x, lo, mid - 1)

RECURSIVE Dichotomy2Loop(_, _, _)
Dichotomy2Loop(g, zi, i) ==
    IF i > Len(g.Zones[zi].Nodes) THEN g
    ELSE LET c == g.Zones[zi].Nodes[i]
             b == Bisect(g, g.node[c].x, 1, Len(g.Nodes))
             left == IF b.found THEN ScanLeft(g, c, b.pos) ELSE None
             hit == IF left # None \/ ~b.found THEN left
                    ELSE ScanRight(g, c, b.pos + 1)
         IN  Dichotomy2Loop(IF hit = None
                            THEN [g EXCEPT !.Nodes = InsertAt(@, b.pos, c)]
                            ELSE Resolve(g, zi, i, hit), zi, i + 1)

dichotomy_2_sided(g, zi) == Dichotomy2Loop(g, zi, 1)

Algorithms == {"n_square", "dichotomy_1_sided", "dichotomy_2_sided"}

\* ------------------------------------------------------------- tecplot.py
\* set_nodes: every zone list of this call (zones first..last of grid.Zones,
\* whose Nodes are the lists in `nodes`), with the algorithm named.
RECURSIVE SetNodesLoop(_, _, _, _)
SetNodesLoop(g, zi, last, algorithm) ==
    IF zi > last THEN g
    ELSE LET g1 == IF algorithm = "n_square" THEN n_square(g, zi) ELSE g
             g2 == IF algorithm = "dichotomy_1_sided"
                   THEN dichotomy_1_sided(g1, zi) ELSE g1
             g3 == IF algorithm = "dichotomy_2_sided"
                   THEN dichotomy_2_sided(g2, zi) ELSE g2
         IN  SetNodesLoop(g3, zi + 1, last, algorithm)

\* set_nodes that leaves out the last zone list.
set_nodes_last_skipped(g, first, last, algorithm) ==
    SetNodesLoop(g, first, last - 1, algorithm)

\* set_nodes whose dichotomy_1_sided branch is never taken.
set_nodes_branch_missing(g, first, last, algorithm) ==
    IF algorithm = "dichotomy_1_sided" THEN g
    ELSE SetNodesLoop(g, first, last, algorithm)

set_nodes(g, first, last, algorithm) == SetNodesLoop(g, first, last, algorithm)

\* One zone of the file, as parce_nodes_and_faces receives it: the (x, y) of
\* its nodes in file order, and one list of integers per face line.
\* New Node and Face objects are allocated; the Face keeps its nodes_ids.
parce_nodes_and_faces(g, zone) ==
    LET n0 == Len(g.node)
        f0 == Len(g.face)
    IN  [g |-> [g EXCEPT
                  !.node = @ \o [k \in 1..Len(zone.xy) |-> Node(zone.xy[k])],
                  !.face = @ \o [k \in 1..Len(zone.recs) |-> Face(zone.recs[k])]],
         nodes |-> [k \in 1..Len(zone.xy) |-> n0 + k],
         faces |-> [k \in 1..Len(zone.recs) |-> f0 + k]]

\* LinkEdge without the lookup: every side gets an Edge of its own.
LinkEdge_always_new(g, f, a, b) ==
    LET new == Len(g.edge) + 1
        g0 == [g EXCEPT !.edge = Append(@, Edge)]
        g1 == link_face_and_edge(g0, f, new)
        g2 == link_node_and_edge(g1, a, new)
        g3 == link_node_and_edge(g2, b, new)
    IN  [g3 EXCEPT !.Edges = Append(@, new)]

\* LinkEdge that leaves an Edge it found without the face.
LinkEdge_found_not_linked(g, f, a, b) ==
    LET e == is_edge_present(g, a, b)
    IN  IF e = None THEN LinkEdge_always_new(g, f, a, b) ELSE g

\* The three edges of a face: the Edge present is reused, a missing one is
\* created, linked and appended to grid.Edges.
LinkEdge(g, f, a, b) ==
    LET e == is_edge_present(g, a, b)
    IN  IF e = None
        THEN LET new == Len(g.edge) + 1
                 g0 == [g EXCEPT !.edge = Append(@, Edge)]
                 g1 == link_face_and_edge(g0, f, new)
                 g2 == link_node_and_edge(g1, a, new)
                 g3 == link_node_and_edge(g2, b, new)
             IN  [g3 EXCEPT !.Edges = Append(@, new)]
        ELSE link_face_and_edge(g, f, e)

\* Whether nodes[f.nodes_ids[j] - 1] can be read for j = 0, 1, 2.
Indexable(g, nodes, f) ==
    LET ids == g.face[f].nodes_ids
    IN  /\ Len(ids) >= 3
        /\ \A j \in 1..3 : PyInRange(nodes, ids[j] - 1)

\* SetFace whose third side joins n3 and n2.
SetFace_third_side_n2(g, nodes, f) ==
    LET ids == g.face[f].nodes_ids
        n1 == PyGet(nodes, ids[1] - 1)
        n2 == PyGet(nodes, ids[2] - 1)
        n3 == PyGet(nodes, ids[3] - 1)
        g1 == link_face_and_node(g, f, n1)
        g2 == link_face_and_node(g1, f, n2)
        g3 == link_face_and_node(g2, f, n3)
        g4 == LinkEdge(g3, f, n1, n2)
        g5 == LinkEdge(g4, f, n2, n3)
    IN  LinkEdge(g5, f, n3, n2)

\* One pass of the loop of set_faces, lines 168-206.
SetFace(g, nodes, f) ==
    LET ids == g.face[f].nodes_ids
        n1 == PyGet(nodes, ids[1] - 1)
        n2 == PyGet(nodes, ids[2] - 1)
        n3 == PyGet(nodes, ids[3] - 1)
        g1 == link_face_and_node(g, f, n1)
        g2 == link_face_and_node(g1, f, n2)
        g3 == link_face_and_node(g2, f, n3)
        g4 == LinkEdge(g3, f, n1, n2)
        g5 == LinkEdge(g4, f, n2, n3)
    IN  LinkEdge(g5, f, n3, n1)

RECURSIVE SetFacesLoop(_, _, _, _)
SetFacesLoop(g, nodes, faces, k) ==
    IF k > Len(faces) THEN [g |-> g, err |-> ""]
    ELSE IF ~Indexable(g, nodes, faces[k]) THEN [g |-> g, err |-> "IndexError"]
    ELSE SetFacesLoop(SetFace(g, nodes, faces[k]), nodes, faces, k + 1)

set_faces(g, nodes, faces) == SetFacesLoop(g, nodes, faces, 1)

\* read_tecplot, lines 113-125: a Zone per zone of the file, appended to
\* grid.Zones before its lines are parsed.
RECURSIVE ParseZones(_, _, _)
ParseZones(g, file, k) ==
    IF k > Len(file) THEN g
    ELSE LET g0 == [g EXCEPT !.Zones = Append(@, Zone(<<>>, <<>>))]
             p == parce_nodes_and_faces(g0, file[k])
         IN  ParseZones([p.g EXCEPT !.Zones[Len(g0.Zones)] = Zone(p.nodes, p.faces)],
                        file, k + 1)

\* LinkZones without `grid.Faces += f`.
RECURSIVE LinkZones_faces_not_added(_, _, _)
LinkZones_faces_not_added(g, zi, last) ==
    IF zi > last THEN [g |-> g, err |-> ""]
    ELSE LET r == set_faces(g, g.Zones[zi].Nodes, g.Zones[zi].Faces)
         IN  IF r.err # "" THEN r
             ELSE LinkZones_faces_not_added(r.g, zi + 1, last)

\* read_tecplot, lines 129-131.
RECURSIVE LinkZones(_, _, _)
LinkZones(g, zi, last) ==
    IF zi > last THEN [g |-> g, err |-> ""]
    ELSE LET r == set_faces(g, g.Zones[zi].Nodes, g.Zones[zi].Faces)
         IN  IF r.err # "" THEN r
             ELSE LinkZones([r.g EXCEPT !.Faces = @ \o g.Zones[zi].Faces],
                            zi + 1, last)

read_tecplot(g, file, algorithm) ==
    IF algorithm \notin Algorithms THEN [g |-> g, err |-> "Exception"]
    ELSE LET first == Len(g.Zones) + 1
             g1 == ParseZones(g, file, 1)
             g2 == set_nodes(g1, first, Len(g1.Zones), algorithm)
             r == LinkZones(g2, first, Len(g2.Zones))
         IN  IF r.err # "" THEN r ELSE [g |-> init_ids(r.g), err |-> ""]

\* ------------------------------------------------------------------ output
\* The target file is the list of its lines; a line is a tag and its numbers.
Line(tag, vals) == [tag |-> tag, vals |-> vals]

\* open(filename, 'w'): the file is emptied, then the two header lines.
print_tecplot_header(out) == <<Line("TITLE", <<>>), Line("VARIABLES", <<>>)>>

print_zone_header(out, zone_name, nodes, faces) ==
    out \o <<Line("ZONE T", <<zone_name>>), Line("NODES", <<Len(nodes)>>),
             Line("ELEMENTS", <<Len(faces)>>), Line("DATAPACKING", <<>>),
             Line("ZONETYPE", <<>>)>>

print_variables(g, out, nodes) ==
    out \o <<Line("X", [k \in 1..Len(nodes) |-> g.node[nodes[k]].x]),
             Line("Y", [k \in 1..Len(nodes) |-> g.node[nodes[k]].y])>>

\* nodes.index(node) + 1: the first position of node, None when it is absent
\* (a ValueError).
IndexOf(nodes, n) ==
    LET at == {k \in 1..Len(nodes) : nodes[k] = n}
    IN  IF at = {} THEN None ELSE Min(at)

RECURSIVE ConnectivityLoop(_, _, _, _, _)
ConnectivityLoop(g, out, nodes, faces, k) ==
    IF k > Len(faces) THEN [out |-> out, err |-> ""]
    ELSE LET fn == g.face[faces[k]].nodes
             pos == [j \in 1..Len(fn) |-> IndexOf(nodes, fn[j])]
             bad == {j \in 1..Len(fn) : pos[j] = None}
         IN  IF bad # {}
             THEN [out |-> Append(out, Line("partial", SubSeq(pos, 1, Min(bad) - 1))),
                   err |-> "ValueError"]
             ELSE ConnectivityLoop(g, Append(out, Line("face", pos)), nodes, faces, k + 1)

print_connectivity_list(g, out, nodes, faces) == ConnectivityLoop(g, out, nodes, faces, 1)

RECURSIVE PrintZonesLoop(_, _, _)
PrintZonesLoop(g, out, i) ==
    IF i > Len(g.Zones) THEN [out |-> out, err |-> ""]
    ELSE LET z == g.Zones[i]
             o1 == print_zone_header(out, i, z.Nodes, z.Faces)
             o2 == print_variables(g, o1, z.Nodes)
             r == print_connectivity_list(g, o2, z.Nodes, z.Faces)
         IN  IF r.err # "" THEN r ELSE PrintZonesLoop(g, r.out, i + 1)

print_zones(g, out) == PrintZonesLoop(g, out, 1)

print_merged_grid(g, out) ==
    IF ~(Len(g.Zones) > 1) THEN [out |-> out, err |-> "AssertionError"]
    ELSE LET o1 == print_zone_header(out, 1, g.Nodes, g.Faces)
             o2 == print_variables(g, o1, g.Nodes)
         IN  print_connectivity_list(g, o2, g.Nodes, g.Faces)

print_tecplot(g, out, merge) ==
    LET o == print_tecplot_header(out)
    IN  IF merge THEN print_merged_grid(g, o) ELSE print_zones(g, o)

\* ------------------------------------------------------------------ inputs
Coords == 0..MaxCoord
Points == Coords \X Coords

SeqsOf(S, lo, hi) == UNION {[1..n -> S] : n \in lo..hi}

ZoneInputs(lists, records) ==
    {[xy |-> l, recs |-> r] : l \in lists, r \in SeqsOf(records, 0, MaxFaces)}


\* ----------------------------------------------------------------- actions
\* `pre` is the grid and the target file as they were when the last operation
\* began, with the name of that operation, `hist` the files read so far with the algorithm of each call,
\* `status` how the last operation ended ("ok", or the exception raised).
Init ==
    /\ grid = Grid
    /\ pre = [grid |-> Grid, outfile |-> <<>>, op |-> "Grid"]
    /\ hist = <<>>
    /\ status = "ok"
    /\ outfile = <<>>

ReadTecplot(file, algorithm) ==
    /\ LET r == read_tecplot(grid, file, algorithm)
       IN  /\ grid' = r.g
           /\ status' = IF r.err = "" THEN "ok" ELSE r.err
    /\ pre' = [grid |-> grid, outfile |-> outfile, op |-> "read_tecplot"]
    /\ hist' = Append(hist, [file |-> file, algorithm |-> algorithm])
    /\ UNCHANGED outfile

PrintTecplot(merge) ==
    /\ status = "ok"
    /\ LET r == print_tecplot(grid, outfile, merge)
       IN  /\ outfile' = r.out
           /\ status' = IF r.err = "" THEN "ok" ELSE r.err
    /\ pre' = [grid |-> grid, outfile |-> outfile,
               op |-> IF merge THEN "print_merged" ELSE "print_zones"]
    /\ UNCHANGED <<grid, hist>>

\* The program goes on after an operation that ended well; the model stops
\* reading when grid.Zones holds MaxZones zones.
Room == IF status = "ok" THEN MaxZones - Len(grid.Zones) ELSE 0

\* Spec: one file is read into the empty grid.  Its zones have MaxNodes nodes
\* each, anywhere in Points, and at most MaxFaces face lines: a triangle or a
\* line that repeats an index.
TopoRecords == {<<1, 2, 3>>, <<1, 1, 2>>}
TopoZones == ZoneInputs(SeqsOf(Points, MaxNodes, MaxNodes), TopoRecords)

Next ==
    \E n \in 1..(IF hist = <<>> THEN Room ELSE 0) :
        \E file \in [1..n -> TopoZones], algorithm \in Algorithms :
            ReadTecplot(file, algorithm)

Spec == Init /\ [][Next]_vars

\* SpecErr: files are read one after another, with face lines of every shape
\* (indices 0, negative and past the end, two and four indices) over zones of
\* 1..MaxNodes nodes, and with an algorithm name that may be unknown.
ErrRecords == {<<1, 2, 3>>, <<0, 1, 2>>, <<-1, 1, 2>>, <<1, 2, 4>>, <<1, 2>>,
               <<1, 2, 3, 1>>}
ErrPoints == {p \in Points : p[1] = 0}
ErrZones == ZoneInputs(SeqsOf(ErrPoints, 1, MaxNodes), ErrRecords)

NextErr ==
    \E n \in 1..Room :
        \E file \in [1..n -> ErrZones], algorithm \in Algorithms \cup {"other"} :
            ReadTecplot(file, algorithm)

SpecErr == Init /\ [][NextErr]_vars

\* SpecNodes: files without faces are read one after another, each call with
\* an algorithm of its own.
NodeZones == ZoneInputs(SeqsOf(Points, 1, MaxNodes), {})

NextNodes ==
    \E n \in 1..Room :
        \E file \in [1..n -> NodeZones], algorithm \in Algorithms :
            ReadTecplot(file, algorithm)

SpecNodes == Init /\ [][NextNodes]_vars

\* SpecOut: files are read and the grid is written, zone by zone or merged,
\* to a target file that may hold something already.
OutZones == ZoneInputs(SeqsOf(ErrPoints, MaxNodes, MaxNodes), {<<1, 2, 3>>})

InitOut ==
    /\ grid = Grid
    /\ hist = <<>>
    /\ status = "ok"
    /\ outfile \in {<<>>, <<Line("old", <<>>)>>}
    /\ pre = [grid |-> Grid, outfile |-> outfile, op |-> "Grid"]

NextOut ==
    \/ \E n \in 1..Room :
           \E file \in [1..n -> OutZones], algorithm \in Algorithms :
               ReadTecplot(file, algorithm)
    \/ \E merge \in BOOLEAN : PrintTecplot(merge)

SpecOut == InitOut /\ [][NextOut]_vars

\* ------------------------------------------------------------------ claims
\* The zones read so far, in the order of grid.Zones: a call with an unknown
\* algorithm name adds none.
RECURSIVE ZonesRead(_)
ZonesRead(k) ==
    IF k = 0 THEN <<>>
    ELSE ZonesRead(k - 1) \o
         (IF hist[k].algorithm \in Algorithms THEN hist[k].file ELSE <<>>)

\* A face line that is a triangle over a zone of n nodes.
ValidRecord(n, r) == Len(r) = 3 /\ \A j \in 1..3 : r[j] \in 1..n
ValidZone(z) == \A k \in 1..Len(z.recs) : ValidRecord(Len(z.xy), z.recs[k])
ValidFile(file) == \A k \in 1..Len(file) : ValidZone(file[k])

NoRepeats(s) == Cardinality(Range(s)) = Len(s)
CoordSet(g, ns) == {XY(g, ns[k]) : k \in 1..Len(ns)}
EdgesBetween(g, a, b) == {e \in Range(g.Edges) : Connects(g, e, a, b)}
\* The sides of a linked face, as pairs of nodes.
Sides(g, f) ==
    LET n == g.face[f].nodes
    IN  {<<n[1], n[2]>>, <<n[2], n[3]>>, <<n[3], n[1]>>}
LinkedFaces(g) == {f \in 1..Len(g.face) : Len(g.face[f].nodes) = 3}

\* One read of a valid file into the empty grid, ended well.
OneValidRead == Len(hist) = 1 /\ status = "ok" /\ ValidFile(hist[1].file)

\* C1: between any two canonical nodes there is at most one Edge of
\* grid.Edges, and for every side (n1-n2, n2-n3, n3-n1) of every face that
\* set_faces has processed exactly one Edge of grid.Edges connects the two
\* nodes, and that Edge lists the face; whatever the zones of the faces.
C1_EdgeUniqueness ==
    /\ NoRepeats(grid.Edges)
    /\ \A a \in Range(grid.Nodes), b \in Range(grid.Nodes) :
           Cardinality(EdgesBetween(grid, a, b)) <= 1
    /\ \A f \in LinkedFaces(grid) : \A s \in Sides(grid, f) :
           \E e \in Range(grid.Edges) :
               /\ EdgesBetween(grid, s[1], s[2]) = {e}
               /\ f \in grid.edge[e].faces

\* An Edge shared by a face of the first zone and a face of the second.
C1_Witness ==
    /\ status = "ok"
    /\ Len(grid.Zones) = 2
    /\ \E e \in Range(grid.Edges) :
           /\ grid.edge[e].faces \cap Range(grid.Zones[1].Faces) # {}
           /\ grid.edge[e].faces \cap Range(grid.Zones[2].Faces) # {}
           /\ grid.edge[e].nodes[1] # grid.edge[e].nodes[2]

\* The (x, y) of the nodes of the file, the sides of its triangles as sets of
\* (x, y), and its face lines, zone by zone.
FileCoords(file) == UNION {Range(file[k].xy) : k \in 1..Len(file)}
RecordSides(xy, r) == {{xy[r[1]], xy[r[2]]}, {xy[r[2]], xy[r[3]]}, {xy[r[3]], xy[r[1]]}}
ZoneSides(z) == UNION {RecordSides(z.xy, z.recs[j]) : j \in 1..Len(z.recs)}
FileSides(file) == UNION {ZoneSides(file[k]) : k \in 1..Len(file)}

RECURSIVE FileTriangles(_, _)
FileTriangles(file, k) ==
    IF k = 0 THEN <<>>
    ELSE FileTriangles(file, k - 1) \o
         [j \in 1..Len(file[k].recs) |->
            [i \in 1..3 |-> file[k].xy[file[k].recs[j][i]]]]

\* C2: after one read of valid zones into the empty grid, grid.Nodes holds
\* exactly one node per distinct (x, y) of the file, grid.Edges exactly one
\* Edge per distinct unordered pair of nodes that is a side of a triangle,
\* and grid.Faces exactly one Face per face line, over the nodes it names.
C2_MergedCounts ==
    OneValidRead =>
        LET file == hist[1].file
            tri == FileTriangles(file, Len(file))
        IN  /\ NoRepeats(grid.Nodes)
            /\ Len(grid.Nodes) = Cardinality(FileCoords(file))
            /\ CoordSet(grid, grid.Nodes) = FileCoords(file)
            /\ NoRepeats(grid.Edges)
            /\ Len(grid.Edges) = Cardinality(FileSides(file))
            /\ {CoordSet(grid, grid.edge[e].nodes) : e \in Range(grid.Edges)}
                   = FileSides(file)
            /\ NoRepeats(grid.Faces)
            /\ Len(grid.Faces) = Len(tri)
            /\ \A k \in 1..Len(tri) :
                   [i \in 1..3 |-> XY(grid, grid.face[grid.Faces[k]].nodes[i])] = tri[k]

\* Two triangles of two zones that share one side: 4 nodes, 5 edges, 2 faces.
C2_Witness ==
    /\ OneValidRead
    /\ Len(hist[1].file) = 2
    /\ Len(grid.Nodes) = 4
    /\ Len(grid.Edges) = 5
    /\ Len(grid.Faces) = 2

\* C3: for the zone lists of one read into the empty grid, the three
\* algorithms give set_nodes the same set of (x, y) in grid.Nodes, and none
\* of them leaves two nodes of grid.Nodes with the same (x, y).
NodesBy(file, algorithm) ==
    set_nodes(ParseZones(Grid, file, 1), 1, Len(file), algorithm).Nodes

C3_StrategiesAgree ==
    (Len(hist) = 1 /\ status = "ok") =>
        \A algorithm \in Algorithms :
            LET g == ParseZones(Grid, hist[1].file, 1)
                ns == NodesBy(hist[1].file, algorithm)
            IN  /\ CoordSet(g, ns) = CoordSet(grid, grid.Nodes)
                /\ Cardinality(CoordSet(g, ns)) = Len(ns)
                /\ CoordSet(g, ns) = FileCoords(hist[1].file)

\* Two zone lists with an (x, y) repeated inside the first and across the
\* two, read with the two-sided dichotomy.
C3_Witness ==
    /\ Len(hist) = 1
    /\ status = "ok"
    /\ hist[1].algorithm = "dichotomy_2_sided"
    /\ Len(hist[1].file) = 2
    /\ \E i \in 1..Len(hist[1].file[1].xy), j \in 1..Len(hist[1].file[1].xy) :
           i # j /\ hist[1].file[1].xy[i] = hist[1].file[1].xy[j]
    /\ Range(hist[1].file[1].xy) \cap Range(hist[1].file[2].xy) # {}
    /\ Len(grid.Nodes) = 3

\* C4: a read that fails on a face line leaves grid.Zones, grid.Nodes,
\* grid.Edges, grid.Faces and the incident edges and faces of the nodes that
\* existed before the call as they were before the call.
C4_FailedReadLeavesGrid ==
    status = "IndexError" =>
        /\ grid.Zones = pre.grid.Zones
        /\ grid.Nodes = pre.grid.Nodes
        /\ grid.Edges = pre.grid.Edges
        /\ grid.Faces = pre.grid.Faces
        /\ \A n \in 1..Len(pre.grid.node) :
               /\ grid.node[n].edges = pre.grid.node[n].edges
               /\ grid.node[n].faces = pre.grid.node[n].faces

\* C5: a read of a file with a face line that is not a triangle over its zone
\* (an index outside 1..n, or not exactly 3 indices) ends in an error.
C5_InvalidRecordRejected ==
    (hist # <<>> /\ pre.op = "read_tecplot" /\ ~ValidFile(hist[Len(hist)].file))
        => status # "ok"

\* C6: print_tecplot with merge=True on a grid of fewer than two zones ends in
\* an error and leaves the target file as it was.
C6_MergedOutputRefused ==
    (pre.op = "print_merged" /\ Len(pre.grid.Zones) < 2) =>
        /\ status = "AssertionError"
        /\ outfile = pre.outfile

\* What a grid holds, whatever the order of its lists: the (x, y) of its
\* nodes, its faces as triples of (x, y), its edges as the set of the (x, y)
\* of their ends with the faces each lists.
FaceXY(g, f) == [i \in 1..Len(g.face[f].nodes) |-> XY(g, g.face[f].nodes[i])]
Content(g) ==
    [nodes |-> CoordSet(g, g.Nodes),
     edges |-> {[ends |-> CoordSet(g, g.edge[e].nodes),
                 faces |-> {FaceXY(g, f) : f \in g.edge[e].faces}] :
                   e \in Range(g.Edges)},
     faces |-> {FaceXY(g, f) : f \in Range(g.Faces)}]

\* C7: two valid zones read into the empty grid give the same nodes, edges
\* (with their faces) and faces in either order of the two zones.
C7_ZoneOrder ==
    (OneValidRead /\ Len(hist[1].file) = 2) =>
        LET file == hist[1].file
            swapped == read_tecplot(Grid, <<file[2], file[1]>>, hist[1].algorithm)
        IN  /\ swapped.err = ""
            /\ Content(swapped.g) = Content(grid)

\* Two different zones, a triangle each, with a side in common.
C7_Witness ==
    /\ OneValidRead
    /\ Len(grid.Zones) = 2
    /\ hist[1].file[1] # hist[1].file[2]
    /\ Len(grid.Faces) = 2
    /\ FaceXY(grid, grid.Faces[1]) # FaceXY(grid, grid.Faces[2])
    /\ \E e \in Range(grid.Edges) : Cardinality(grid.edge[e].faces) = 2

\* The faces of the zones, zone after zone.
RECURSIVE ZoneFaces(_, _)
ZoneFaces(g, k) == IF k = 0 THEN <<>> ELSE ZoneFaces(g, k - 1) \o g.Zones[k].Faces

\* C8: after a read of valid input has completed, every node of every zone
\* and every node of every face is one of grid.Nodes, grid.Faces is the
\* faces of the zones in zone order, every edge of a face is one of
\* grid.Edges, and each node of a face has a position in the node list of its
\* zone and in grid.Nodes.
C8_GlobalListsHoldAll ==
    (hist # <<>> /\ status = "ok" /\ \A k \in 1..Len(hist) : ValidFile(hist[k].file)) =>
        /\ grid.Faces = ZoneFaces(grid, Len(grid.Zones))
        /\ \A z \in 1..Len(grid.Zones) :
               /\ Range(grid.Zones[z].Nodes) \subseteq Range(grid.Nodes)
               /\ \A f \in Range(grid.Zones[z].Faces) :
                      /\ Len(grid.face[f].nodes) = 3
                      /\ Range(grid.face[f].edges) \subseteq Range(grid.Edges)
                      /\ \A n \in Range(grid.face[f].nodes) :
                             /\ IndexOf(grid.Zones[z].Nodes, n) # None
                             /\ IndexOf(grid.Nodes, n) # None

\* Two zones with a face each, the second with a node of the first.
C8_Witness ==
    /\ OneValidRead
    /\ Len(grid.Zones) = 2
    /\ grid.Zones[1].Faces # <<>>
    /\ grid.Zones[2].Faces # <<>>
    /\ Range(grid.Zones[1].Nodes) \cap Range(grid.Zones[2].Nodes) # {}
    /\ ~(Range(grid.Zones[2].Nodes) \subseteq Range(grid.Zones[1].Nodes))

\* C9: the node list of a zone keeps the length of its input, and its i-th
\* entry is a node of grid.Nodes with the i-th (x, y) of the input, also when
\* two entries are the same node and after later reads.
C9_PositionalResolution ==
    LET zin == ZonesRead(Len(hist))
    IN  /\ Len(grid.Zones) = Len(zin)
        /\ \A z \in 1..Len(zin) :
               /\ Len(grid.Zones[z].Nodes) = Len(zin[z].xy)
               /\ \A i \in 1..Len(zin[z].xy) :
                      /\ grid.Zones[z].Nodes[i] \in Range(grid.Nodes)
                      /\ XY(grid, grid.Zones[z].Nodes[i]) = zin[z].xy[i]

\* A zone with the same node at two positions, and a later read that added
\* nodes to grid.Nodes.
C9_Witness ==
    /\ Len(hist) = 2
    /\ status = "ok"
    /\ \E i \in 1..Len(grid.Zones[1].Nodes), j \in 1..Len(grid.Zones[1].Nodes) :
           i # j /\ grid.Zones[1].Nodes[i] = grid.Zones[1].Nodes[j]
    /\ Len(grid.Nodes) > Len(pre.grid.Nodes)

\* C10: every Edge of grid.Edges has two different end nodes, and every face
\* an Edge lists has a side between the two ends of that Edge.
C10_EdgesJoinDistinctNodes ==
    \A e \in Range(grid.Edges) :
        /\ Len(grid.edge[e].nodes) = 2
        /\ grid.edge[e].nodes[1] # grid.edge[e].nodes[2]
        /\ \A f \in grid.edge[e].faces : \E s \in Sides(grid, f) :
               Connects(grid, e, s[1], s[2])

====
